---- MODULE Spec2Model ----
(***************************************************************************)
(* A model of question_answering/dcn_plus.py: the DCN+ query/document      *)
(* encoder (encode, query_document_encoder, maybe_mask_affinity,           *)
(* coattention) and span decoder (decode).                                 *)
(*                                                                         *)
(* Two specifications share the module.                                    *)
(*   SpecCoattention  the arithmetic of coattention and of the affinity    *)
(*                    mask, on small tensors with exact arithmetic over    *)
(*                    the rationals extended by -inf, +inf and NaN.        *)
(*   Spec             graph construction: the tensor shapes encode and     *)
(*                    decode produce, and the variables (parameters) the   *)
(*                    variable scopes, cells and dense layers create in    *)
(*                    the graph's variable store.                          *)
(* Tensors are 1-based sequences; the source's 0-based position i is the   *)
(* model's position i + 1, so "i >= length" reads "i > length" here.       *)
(***************************************************************************)
EXTENDS Integers, Sequences, FiniteSets, TLC

VARIABLES
    \* ---- coattention(query, query_length, document, document_length, sentinel)
    query,              \* [N, Q, 2H]
    query_length,       \* [N]
    document,           \* [N, D, 2H]
    document_length,    \* [N]
    sentinel,           \* the sentinel argument of the call
    co,                 \* the locals and returns of the last coattention call
    first,              \* an earlier call (inputs and returns) the last one is compared to
    pc,                 \* "ready" | "done" | "rerun" for coattention; "mask" | "masked"; "graph"
    \* ---- maybe_mask_affinity(affinity, sequence_length)
    mask,               \* the arguments and the return of a maybe_mask_affinity call
    \* ---- graph construction (encode, decode)
    graph               \* the graph's variable store, and the last encode or decode call

co_vars == <<query, query_length, document, document_length, sentinel, co, first>>
vars == <<query, query_length, document, document_length, sentinel, co, first, pc, mask, graph>>

(***************************************************************************)
(* Bounds.                                                                 *)
(***************************************************************************)
\* Longest padded document axis: D ranges over 1..MaxLen. Queries are shorter
\* than documents: Q ranges over 1..MaxQueryLen.
MaxLen == 3

MaxQueryLen == MaxLen - 1

\* The feature vectors a query or document position may hold (2H = 2).
Rows == {<<1, -1>>, <<0, 1>>}

\* Batch sizes of the coattention calls. Every operation of coattention works
\* on one batch element at a time (the einsum index n, the softmax along
\* axis 1, row n of the mask), so one element shows what any number does.
BatchSizes == {1}

\* Batch sizes of the maybe_mask_affinity calls.
MaskBatchSizes == {1, 2}

\* In graph construction: the batch sizes N, the word embedding sizes R and
\* the state sizes H of the encode calls (Q and D are bounded as above).
BatchDims == {1, 2}
EmbeddingSizes == {2, 3}
StateSizes == {1, 2}

(***************************************************************************)
(* Numbers: float arithmetic as exact arithmetic on <<"fin", n, d>> (the   *)
(* rational n/d in lowest terms, d > 0), <<"ninf",0,1>>, <<"pinf",0,1>>    *)
(* and <<"nan",0,1>>, with IEEE 754's rules for the infinities and NaN.    *)
(***************************************************************************)
RECURSIVE GCD(_, _)
GCD(a, b) == IF b = 0 THEN a ELSE GCD(b, a % b)

Abs(x) == IF x < 0 THEN -x ELSE x

NaN == <<"nan", 0, 1>>
NegInf == <<"ninf", 0, 1>>
PosInf == <<"pinf", 0, 1>>

Fin(n, d) ==
    LET s == IF d < 0 THEN -1 ELSE 1
        g == GCD(Abs(n), Abs(d))
    IN  <<"fin", (s * n) \div g, (s * d) \div g>>

Int2F(n) == <<"fin", n, 1>>
Zero == Int2F(0)
One == Int2F(1)

IsNaN(a) == a[1] = "nan"
IsFin(a) == a[1] = "fin"

\* -1, 0 or 1; NaN has no sign and is never asked for one.
Sign(a) ==
    CASE a[1] = "ninf" -> -1
      [] a[1] = "pinf" -> 1
      [] a[1] = "fin" -> IF a[2] < 0 THEN -1 ELSE IF a[2] = 0 THEN 0 ELSE 1

Add(a, b) ==
    IF IsNaN(a) \/ IsNaN(b) THEN NaN
    ELSE IF IsFin(a) /\ IsFin(b)
         THEN LET g == GCD(a[3], b[3])
              IN  Fin(a[2] * (b[3] \div g) + b[2] * (a[3] \div g), (a[3] \div g) * b[3])
    ELSE IF IsFin(a) THEN b
    ELSE IF IsFin(b) THEN a
    ELSE IF a = b THEN a
    ELSE NaN                       \* inf + -inf

Neg(a) ==
    CASE a[1] = "nan" -> NaN
      [] a[1] = "ninf" -> PosInf
      [] a[1] = "pinf" -> NegInf
      [] a[1] = "fin" -> <<"fin", -a[2], a[3]>>

Sub(a, b) == Add(a, Neg(b))

Mul(a, b) ==
    IF IsNaN(a) \/ IsNaN(b) THEN NaN
    ELSE IF IsFin(a) /\ IsFin(b)
         THEN LET g1 == GCD(Abs(a[2]), b[3])
                  g2 == GCD(Abs(b[2]), a[3])
              IN  Fin((a[2] \div g1) * (b[2] \div g2), (a[3] \div g2) * (b[3] \div g1))
    ELSE IF Sign(a) * Sign(b) = 0 THEN NaN      \* 0 * inf
    ELSE IF Sign(a) * Sign(b) < 0 THEN NegInf
    ELSE PosInf

Div(a, b) ==
    IF IsNaN(a) \/ IsNaN(b) THEN NaN
    ELSE IF IsFin(a) /\ IsFin(b)
         THEN IF b[2] # 0 THEN Fin(a[2] * b[3], a[3] * b[2])
              ELSE IF a[2] = 0 THEN NaN          \* 0 / 0
              ELSE IF a[2] < 0 THEN NegInf ELSE PosInf
    ELSE IF IsFin(b) THEN (IF Sign(a) * (IF Sign(b) < 0 THEN -1 ELSE 1) < 0 THEN NegInf ELSE PosInf)
    ELSE IF IsFin(a) THEN Zero
    ELSE NaN                       \* inf / inf

Less(a, b) ==
    CASE a[1] = "ninf" -> b[1] # "ninf"
      [] a[1] = "pinf" -> FALSE
      [] a[1] = "fin" -> \/ b[1] = "pinf"
                         \/ b[1] = "fin" /\ a[2] * b[3] < b[2] * a[3]

Max(a, b) ==
    IF IsNaN(a) \/ IsNaN(b) THEN NaN
    ELSE IF Less(a, b) THEN b ELSE a

\* The exponential, to the base 2 so that it stays rational: like e^x it is
\* positive on every finite x, 0 at -inf, +inf at +inf and monotone, which is
\* all the softmax below uses. The logits of this model are integers.
Exp(a) ==
    CASE a[1] = "nan" -> NaN
      [] a[1] = "ninf" -> Zero
      [] a[1] = "pinf" -> PosInf
      [] a[1] = "fin" /\ a[3] = 1 ->
            IF a[2] >= 0 THEN <<"fin", 2 ^ a[2], 1>> ELSE <<"fin", 1, 2 ^ (-a[2])>>

(***************************************************************************)
(* Tensor operations of the framework, as coattention uses them.           *)
(***************************************************************************)
\* The identity. Comparing a tensor with itself makes TLC evaluate its entries
\* once and keep them, instead of recomputing an entry each time it is read.
Evaluated(t) == IF t = t THEN t ELSE t

\* the sum, and the maximum, of the first k entries of s
RECURSIVE SumTo(_, _)
SumTo(s, k) == IF k = 0 THEN Zero ELSE Add(SumTo(s, k - 1), s[k])

SumSeq(s) == SumTo(s, Len(s))

RECURSIVE MaxTo(_, _)
MaxTo(s, k) == IF k = 1 THEN s[1] ELSE Max(MaxTo(s, k - 1), s[k])

MaxSeq(s) == MaxTo(s, Len(s))

\* tf.shape(t)[1] and tf.shape(t)[2] of a rank 3 tensor
Dim1(t) == Len(t[1])
Dim2(t) == Len(t[1][1])

\* tf.transpose(t, [0, 2, 1])
transpose(t) ==
    [n \in 1..Len(t) |-> [j \in 1..Dim2(t) |-> [i \in 1..Dim1(t) |-> t[n][i][j]]]]

\* tf.einsum('ndh,nqh->ndq', a, b)
einsum_ndh_nqh_ndq(a, b) ==
    [n \in 1..Len(a) |-> [d \in 1..Dim1(a) |-> [q \in 1..Dim1(b) |->
        SumSeq([h \in 1..Dim2(a) |-> Mul(a[n][d][h], b[n][q][h])])]]]

\* tf.einsum('ndh,ndq->nqh', a, b); also 'nqh,nqd->ndh' with the letters renamed
einsum_ndh_ndq_nqh(a, b) ==
    [n \in 1..Len(a) |-> [q \in 1..Dim2(b) |-> [h \in 1..Dim2(a) |->
        SumSeq([d \in 1..Dim1(a) |-> Mul(a[n][d][h], b[n][d][q])])]]]

softmax_normalise_missing(e, total) == e

\* tf.nn.softmax(t, dim=1): exp(x - max) / sum(exp(x - max)) along axis 1
softmax_normalise(e, total) == Div(e, total)

softmax_column(x) ==
    LET m == MaxSeq(x)
        e == Evaluated([i \in 1..Len(x) |-> Exp(Sub(x[i], m))])
        total == SumSeq(e)
    IN  [i \in 1..Len(x) |-> softmax_normalise(e[i], total)]

softmax_dim1(t) ==
    [n \in 1..Len(t) |->
        LET col == Evaluated([j \in 1..Dim2(t) |-> softmax_column(Evaluated([i \in 1..Dim1(t) |-> t[n][i][j]]))])
        IN  [i \in 1..Dim1(t) |-> [j \in 1..Dim2(t) |-> col[j][i]]]]

(***************************************************************************)
(* maybe_mask_affinity                                                     *)
(***************************************************************************)
affinity_mask_value_finite == Int2F(-8)

\* the default of the affinity_mask_value parameter: float('-inf')
affinity_mask_value == NegInf

sequence_mask_first_length(sequence_length, n, i) == i <= sequence_length[1]

\* tf.sequence_mask(sequence_length, maxlen)[n][i], i the 1-based position:
\* true on the first sequence_length[n] positions
sequence_mask(sequence_length, n, i) == i <= sequence_length[n]

maybe_mask_affinity_unmasked(affinity, sequence_length) == affinity

\* sequence_length is the length vector, or <<>> for None
maybe_mask_affinity(affinity, sequence_length) ==
    IF sequence_length = <<>> THEN affinity
    ELSE LET score_mask == [n \in 1..Len(affinity) |-> [i \in 1..Dim1(affinity) |->
                                [j \in 1..Dim2(affinity) |-> sequence_mask(sequence_length, n, i)]]]
             affinity_mask_values == [n \in 1..Len(affinity) |-> [i \in 1..Dim1(affinity) |->
                                [j \in 1..Dim2(affinity) |-> Mul(affinity_mask_value, One)]]]
         IN  [n \in 1..Len(affinity) |-> [i \in 1..Dim1(affinity) |->
                [j \in 1..Dim2(affinity) |->
                    IF score_mask[n][i][j] THEN affinity[n][i][j]
                    ELSE affinity_mask_values[n][i][j]]]]

(***************************************************************************)
(* coattention                                                             *)
(***************************************************************************)
mask_length_plus_one(length, sentinel_arg) ==
    IF sentinel_arg THEN [n \in 1..Len(length) |-> length[n] + 1] ELSE length

\* The length vector a mask is given. The sentinel argument is not read by
\* the body of coattention (add_sentinel and remove_sentinel are stubs that
\* are never called), so the lengths are used as they are.
mask_length(length, sentinel_arg) == length

coattention(q, q_len, d, d_len, sentinel_arg) ==
    LET unmasked_affinity == Evaluated(einsum_ndh_nqh_ndq(d, q))
        affinity == Evaluated(maybe_mask_affinity(unmasked_affinity, mask_length(d_len, sentinel_arg)))
        attention_p == Evaluated(softmax_dim1(affinity))
        affinity_t == Evaluated(maybe_mask_affinity(transpose(unmasked_affinity), mask_length(q_len, sentinel_arg)))
        attention_q == Evaluated(softmax_dim1(affinity_t))
        summary_q == Evaluated(einsum_ndh_ndq_nqh(d, attention_p))
        summary_d == Evaluated(einsum_ndh_ndq_nqh(q, attention_q))
        coattention_d == Evaluated(einsum_ndh_ndq_nqh(summary_q, attention_q))
    IN  [unmasked_affinity |-> unmasked_affinity,
         affinity |-> affinity,
         attention_p |-> attention_p,
         affinity_t |-> affinity_t,
         attention_q |-> attention_q,
         summary_q |-> summary_q,
         summary_d |-> summary_d,
         coattention_d |-> coattention_d]

(***************************************************************************)
(* SpecCoattention: calls of coattention on every small input.             *)
(***************************************************************************)
NoCall == [unmasked_affinity |-> <<>>, affinity |-> <<>>, attention_p |-> <<>>,
           affinity_t |-> <<>>, attention_q |-> <<>>, summary_q |-> <<>>,
           summary_d |-> <<>>, coattention_d |-> <<>>]

NoFirst == [query |-> <<>>, document |-> <<>>, summary_q |-> <<>>,
            summary_d |-> <<>>, coattention_d |-> <<>>]

NoGraph == <<>>     \* the value of graph where no graph is built

NoMask == <<>>

F(row) == [h \in 1..Len(row) |-> Int2F(row[h])]

\* every tensor of shape [N, L, 2H] with rows from Rows
Tensors(N, L) == [1..N -> [1..L -> {F(r) : r \in Rows}]]

InitCoattention ==
    /\ \E N \in BatchSizes, Q \in 1..MaxQueryLen, D \in 1..MaxLen :
        /\ query \in Tensors(N, Q)
        /\ document \in Tensors(N, D)
        /\ query_length \in [1..N -> 0..Q]
        /\ document_length \in [1..N -> 0..D]
    /\ sentinel = FALSE
    /\ co = NoCall
    /\ first = NoFirst
    /\ pc = "ready"
    /\ mask = NoMask
    /\ graph = NoGraph

\* one call of coattention, with or without the sentinel flag
Coattention ==
    /\ pc = "ready"
    /\ \E s \in BOOLEAN :
        /\ sentinel' = s
        /\ co' = coattention(query, query_length, document, document_length, s)
    /\ pc' = "done"
    /\ UNCHANGED <<query, query_length, document, document_length, first, mask, graph>>

\* tensor t with row i of batch element n replaced by row
WithRow(t, n, i, row) == [t EXCEPT ![n][i] = row]

\* a second call, with the same lengths, on inputs that differ from the first
\* call's in one padded row (a query row past query_length[n] or a document
\* row past document_length[n]); any two inputs that agree on their in-bounds
\* rows are joined by a chain of such steps
CoattentionRepadded ==
    /\ pc = "done"
    /\ \E n \in 1..Len(query), row \in {F(r) : r \in Rows} :
        \/ \E i \in (query_length[n] + 1)..Dim1(query) :
            /\ row # query[n][i]
            /\ query' = WithRow(query, n, i, row)
            /\ document' = document
        \/ \E i \in (document_length[n] + 1)..Dim1(document) :
            /\ row # document[n][i]
            /\ document' = WithRow(document, n, i, row)
            /\ query' = query
    /\ co' = coattention(query', query_length, document', document_length, sentinel)
    /\ first' = [query |-> query, document |-> document, summary_q |-> co.summary_q,
                 summary_d |-> co.summary_d, coattention_d |-> co.coattention_d]
    /\ pc' = "rerun"
    /\ UNCHANGED <<query_length, document_length, sentinel, mask, graph>>

NextCoattention == Coattention \/ CoattentionRepadded

SpecCoattention == InitCoattention /\ [][NextCoattention]_vars

Called == pc \in {"done", "rerun"}

Batch == 1..Len(query)
QPos == 1..Dim1(query)
DPos == 1..Dim1(document)
HPos == 1..Dim2(query)

\* C2: padding receives exactly zero attention mass. For every batch element
\* n with 1 <= document_length[n] < D, attention_p[n,d,q] = 0 at every document
\* position d past the length and every q; and for every n with
\* 1 <= query_length[n] < Q, attention_q[n,q,d] = 0 at every query position q
\* past the length and every d.
C2_PaddingHasZeroAttention ==
    Called =>
        \A n \in Batch :
            /\ (1 <= document_length[n] /\ document_length[n] < Dim1(document)) =>
                    \A d \in (document_length[n] + 1)..Dim1(document), q \in QPos :
                        /\ co.affinity[n][d][q] = NegInf
                        /\ co.attention_p[n][d][q] = Zero
            /\ (1 <= query_length[n] /\ query_length[n] < Dim1(query)) =>
                    \A q \in (query_length[n] + 1)..Dim1(query), d \in DPos :
                        /\ co.affinity_t[n][q][d] = NegInf
                        /\ co.attention_q[n][q][d] = Zero

\* the scenario Q = 2, D = 3, query_length = [2], document_length = [2]: the
\* third document position is masked and the two in-bounds ones share the mass
C2_Witness ==
    /\ pc = "done"
    /\ Dim1(query) = 2 /\ Dim1(document) = 3
    /\ query_length = <<2>> /\ document_length = <<2>>
    /\ \A q \in QPos : co.attention_p[1][3][q] = Zero
    /\ \E q \in QPos : co.attention_p[1][1][q] # co.attention_p[1][2][q]

\* C3: the attention weights of an unmasked row are normalised. For every n
\* with document_length[n] >= 1 and every q, attention_p[n,.,q] sums to 1 over
\* the document positions, all of it on the in-bounds positions; for every n
\* with query_length[n] >= 1 and every d, attention_q[n,.,d] sums to 1 over the
\* query positions, all of it on the in-bounds positions.
C3_AttentionSumsToOne ==
    Called =>
        \A n \in Batch :
            /\ document_length[n] >= 1 =>
                    \A q \in QPos :
                        /\ SumTo([d \in DPos |-> co.attention_p[n][d][q]], Dim1(document)) = One
                        /\ SumTo([d \in DPos |-> co.attention_p[n][d][q]], document_length[n]) = One
            /\ query_length[n] >= 1 =>
                    \A d \in DPos :
                        /\ SumTo([q \in QPos |-> co.attention_q[n][q][d]], Dim1(query)) = One
                        /\ SumTo([q \in QPos |-> co.attention_q[n][q][d]], query_length[n]) = One

\* a call whose weights are proper fractions, not all equal: three in-bounds
\* document logits and two in-bounds query logits
C3_Witness ==
    /\ Called
    /\ document_length = <<3>> /\ query_length = <<2>>
    /\ \E q \in QPos :
            /\ \A d \in DPos : co.attention_p[1][d][q] \notin {Zero, One}
            /\ \E d, d2 \in DPos : co.attention_p[1][d][q] # co.attention_p[1][d2][q]
    /\ \E d \in DPos : \A q \in QPos : co.attention_q[1][q][d] \notin {Zero, One}

HasNaN(t) == \E n \in 1..Len(t), i \in 1..Dim1(t), j \in 1..Dim2(t) : IsNaN(t[n][i][j])

\* a softmax is taken along axis 1 of t with every entry of a column masked
AllMaskedColumn(t) ==
    \E n \in 1..Len(t), j \in 1..Dim2(t) : \A i \in 1..Dim1(t) : t[n][i][j] = NegInf

\* C6: an input with a zero length is rejected or gives a defined result:
\* coattention never takes a softmax over an axis whose entries are all
\* masked, and no NaN reaches summary_q, summary_d or coattention_d.
C6_ZeroLengthIsDefined ==
    Called =>
        /\ ~AllMaskedColumn(co.affinity)
        /\ ~AllMaskedColumn(co.affinity_t)
        /\ ~HasNaN(co.summary_q)
        /\ ~HasNaN(co.summary_d)
        /\ ~HasNaN(co.coattention_d)

\* C9: the sentinel flag is inert. A call with sentinel = True returns what
\* the call with sentinel = False returns on the same arguments (and the
\* other way round), every intermediate tensor included, and the masks are
\* given the length vectors unchanged (no + 1).
C9_SentinelIsInert ==
    pc = "done" =>
        /\ co = coattention(query, query_length, document, document_length, ~sentinel)
        /\ mask_length(query_length, sentinel) = query_length
        /\ mask_length(document_length, sentinel) = document_length

\* a call with sentinel = True on an input with padding on both axes, where a
\* length + 1 would unmask a padded position
C9_Witness ==
    /\ pc = "done"
    /\ sentinel = TRUE
    /\ query_length = <<1>> /\ Dim1(query) = 2
    /\ document_length = <<2>> /\ Dim1(document) = 3
    /\ co.attention_p[1][3][1] = Zero

\* C10: padding does not influence the in-bounds outputs. Two calls with the
\* same lengths (all >= 1) whose inputs agree on every in-bounds row return
\* the same summary_d[n,d,:] and coattention_d[n,d,:] at every in-bounds
\* document position and the same summary_q[n,q,:] at every in-bounds query
\* position.
C10_PaddingDoesNotInfluence ==
    (pc = "rerun" /\ \A n \in Batch : query_length[n] >= 1 /\ document_length[n] >= 1) =>
        \A n \in Batch :
            /\ \A q \in 1..query_length[n] : first.query[n][q] = query[n][q]
            /\ \A d \in 1..document_length[n] : first.document[n][d] = document[n][d]
            /\ \A d \in 1..document_length[n] :
                    /\ co.summary_d[n][d] = first.summary_d[n][d]
                    /\ co.coattention_d[n][d] = first.coattention_d[n][d]
            /\ \A q \in 1..query_length[n] : co.summary_q[n][q] = first.summary_q[n][q]

\* a second call that differs from the first in a padded query row: the
\* output at the padded position changes, the in-bounds outputs do not
C10_Witness ==
    /\ pc = "rerun"
    /\ query_length = <<1>> /\ document_length = <<2>>
    /\ Dim1(query) = 2 /\ Dim1(document) = 3
    /\ first.query # query
    /\ first.summary_q[1][2] # co.summary_q[1][2]
    /\ first.summary_q[1][1] = co.summary_q[1][1]

(***************************************************************************)
(* Graph construction. A shape is a sequence of sizes. A variable is a     *)
(* name (the path of its variable scopes) with a shape; the variable store *)
(* of the graph is a set of variables with different names.                *)
(* While a call builds the graph, g is its record:                         *)
(*   variables   the variable store                                        *)
(*   reuse       the reuse flag of the enclosing variable scope, which the *)
(*               scopes opened by encode and decode inherit, as none of    *)
(*               them sets one                                             *)
(*   cells       the cell objects made so far                              *)
(*   passes      the recurrent passes run so far                           *)
(*   error       the exception raised, "none" while there is none          *)
(*   outputs     what the last framework call returned (shapes)            *)
(* and the arguments, locals and returns of encode and decode (shapes).    *)
(* Each operation takes g and returns it changed.                          *)
(***************************************************************************)
NoShape == <<0>>    \* the shape of a tensor no call returned

\* the reuse flag of a variable scope: the default, reuse=True, tf.AUTO_REUSE
ReuseFlags == {"False", "True", "AUTO_REUSE"}

Exists(variables, name) == \E v \in variables : v.name = name

ShapeOf(variables, name) == (CHOOSE v \in variables : v.name = name).shape

Raise(g) == [g EXCEPT !.error = "ValueError"]

\* tf.get_variable(name, shape), as the cells and the dense layers call it
get_variable(g, name, shape) ==
    IF g.error # "none" THEN g
    ELSE IF Exists(g.variables, name)
         THEN IF g.reuse = "False" THEN Raise(g)                       \* already exists
              ELSE IF ShapeOf(g.variables, name) # shape THEN Raise(g) \* another shape
              ELSE g
         ELSE IF g.reuse = "True" THEN Raise(g)                        \* does not exist
              ELSE [g EXCEPT !.variables = @ \cup {[name |-> name, shape |-> shape]}]

\* get_cell(): a new LSTMCell(num_units=state_size), which owns no variables
\* until it is first called
get_cell(g) ==
    [g EXCEPT !.cells = Append(@, [num_units |-> g.state_size, scope |-> <<>>])]

\* the kernel of cell number c on an input of depth features
kernel_shape(g, c, depth) == <<depth + g.cells[c].num_units, 4 * g.cells[c].num_units>>

\* the cell keeps the scope its variables were made in
cell_built(g, c, path) ==
    IF g.error # "none" THEN g ELSE [g EXCEPT !.cells[c].scope = path]

\* One call of cell number c on an input of depth features inside scope. The
\* first call makes the cell's kernel and bias under scope/lstm_cell; a later
\* call of the same cell object uses the variables it already owns.
lstm_cell(g, scope, c, depth) ==
    IF g.error # "none" THEN g
    ELSE IF g.cells[c].scope # <<>>
         THEN IF ShapeOf(g.variables, g.cells[c].scope \o <<"kernel">>) = kernel_shape(g, c, depth)
              THEN g ELSE Raise(g)
         ELSE cell_built(
                get_variable(
                    get_variable(g, scope \o <<"lstm_cell", "kernel">>, kernel_shape(g, c, depth)),
                    scope \o <<"lstm_cell", "bias">>, <<4 * g.cells[c].num_units>>),
                c, scope \o <<"lstm_cell">>)

\* a concatenation that joins along axis 1 whatever axis it is given
concat_along_axis_1(shapes, axis) ==
    IF \E k \in 1..Len(shapes) : \E i \in 1..Len(shapes[1]) \ {2} : shapes[k][i] # shapes[1][i]
    THEN NoShape
    ELSE [i \in 1..Len(shapes[1]) |->
            IF i = 2
            THEN SumTo([k \in 1..Len(shapes) |-> Int2F(shapes[k][i])], Len(shapes))[2]
            ELSE shapes[1][i]]

\* tf.concat(shapes, axis), axis counted from 0
concat(shapes, axis) ==
    IF \E k \in 1..Len(shapes) : \E i \in 1..Len(shapes[1]) \ {axis + 1} : shapes[k][i] # shapes[1][i]
    THEN NoShape
    ELSE [i \in 1..Len(shapes[1]) |->
            IF i = axis + 1
            THEN SumTo([k \in 1..Len(shapes) |-> Int2F(shapes[k][i])], Len(shapes))[2]
            ELSE shapes[1][i]]

\* what bidirectional_dynamic_rnn returns once both cells have run: the pair
\* of the forward and the backward outputs, [N, L, num_units] each
rnn_outputs(g, scope, input, cell_fw, cell_bw, inputs) ==
    IF g.error # "none" THEN g
    ELSE [g EXCEPT !.passes = Append(@, [stage |-> scope, input |-> input,
                                         fw |-> g.cells[cell_fw].scope,
                                         bw |-> g.cells[cell_bw].scope]),
                   !.outputs = << <<inputs[1], inputs[2], g.cells[cell_fw].num_units>>,
                                  <<inputs[1], inputs[2], g.cells[cell_bw].num_units>> >>]

\* tf.nn.bidirectional_dynamic_rnn(cell_fw, cell_bw, inputs) inside scope: the
\* cells run under scope/bidirectional_rnn/fw and scope/bidirectional_rnn/bw
bidirectional_dynamic_rnn(g, scope, input, cell_fw, cell_bw, inputs) ==
    rnn_outputs(
        lstm_cell(
            lstm_cell(g, scope \o <<"bidirectional_rnn", "fw">>, cell_fw, inputs[3]),
            scope \o <<"bidirectional_rnn", "bw">>, cell_bw, inputs[3]),
        scope, input, cell_fw, cell_bw, inputs)

dense_outputs(g, inputs, units) ==
    IF g.error # "none" THEN g
    ELSE [g EXCEPT !.outputs = [inputs EXCEPT ![Len(inputs)] = units]]

\* tf.layers.dense(inputs, units) inside scope: kernel and bias under scope/dense
dense(g, scope, inputs, units) ==
    dense_outputs(
        get_variable(
            get_variable(g, scope \o <<"dense", "kernel">>, <<inputs[Len(inputs)], units>>),
            scope \o <<"dense", "bias">>, <<units>>),
        inputs, units)

\* query_encoding = tf.concat(query_fw_bw_encodings, 2), then the dense layer
\* of tf.shape(query_encoding)[2] units on it
query_dense(g, scope) ==
    IF g.error # "none" THEN g
    ELSE dense(g, scope, concat(g.outputs, 2), concat(g.outputs, 2)[3])

query_encoded(g) ==
    IF g.error # "none" THEN g ELSE [g EXCEPT !.query_encoding = g.outputs]

document_encoded(g) ==
    IF g.error # "none" THEN g ELSE [g EXCEPT !.document_encoding = concat(g.outputs, 2)]

\* query_document_encoder(cell_fw, cell_bw, query, query_length, document,
\* document_length) inside scope: the query pass, the dense layer on the query
\* encoding, the document pass with the same two cells
query_document_encoder(g, scope, cell_fw, cell_bw, q, d) ==
    document_encoded(
        bidirectional_dynamic_rnn(
            query_encoded(
                query_dense(
                    bidirectional_dynamic_rnn(g, scope, "query", cell_fw, cell_bw, q),
                    scope)),
            scope, "document", cell_fw, cell_bw, d))

\* the shape tf.einsum('ndh,nqh->ndq', a, b) returns
einsum_shape_ndh_nqh_ndq(a, b) ==
    IF a[1] = b[1] /\ a[3] = b[3] THEN <<a[1], a[2], b[2]>> ELSE NoShape

\* the shape tf.einsum('ndh,ndq->nqh', a, b) returns
einsum_shape_ndh_ndq_nqh(a, b) ==
    IF a[1] = b[1] /\ a[2] = b[2] THEN <<a[1], b[3], a[3]>> ELSE NoShape

\* the shapes of what coattention returns on a query and a document of these
\* shapes (masking and softmax keep the shape of the affinity)
coattention_shapes(q, d) ==
    LET unmasked_affinity == einsum_shape_ndh_nqh_ndq(d, q)
        attention_p == unmasked_affinity
        attention_q == <<unmasked_affinity[1], unmasked_affinity[3], unmasked_affinity[2]>>
        summary_q == einsum_shape_ndh_ndq_nqh(d, attention_p)
    IN  [summary_q |-> summary_q,
         summary_d |-> einsum_shape_ndh_ndq_nqh(q, attention_q),
         coattention_d |-> einsum_shape_ndh_ndq_nqh(summary_q, attention_q)]

\* the variable scopes encode and decode open
encoder_scope == <<"encoder">>
summary_encoder_scope_shared == <<"encoder">>
summary_encoder_scope == <<"summary_encoder">>
final_encoder_scope == <<"final_encoder">>
decode_start_scope == <<"decode_start">>
decode_end_scope == <<"decode_end">>

NoShapes == [query_encoding |-> NoShape, document_encoding |-> NoShape,
             summary_q_1 |-> NoShape, summary_d_1 |-> NoShape, coattention_d_1 |-> NoShape,
             summary_q_encoding |-> NoShape, summary_d_encoding |-> NoShape,
             summary_d_2 |-> NoShape, coattention_d_2 |-> NoShape,
             document_representation |-> NoShape]

\* The blocks of encode, in the order encode runs them.

encoder_returns(g) ==
    [g EXCEPT !.shapes.query_encoding = g.query_encoding,
              !.shapes.document_encoding = g.document_encoding]

\* with tf.variable_scope('encoder'): the two new cells are the last two made
encode_encoder(g) ==
    encoder_returns(
        query_document_encoder(get_cell(get_cell(g)), encoder_scope,
                               Len(g.cells) + 1, Len(g.cells) + 2, g.query, g.document))

\* with tf.variable_scope('coattention_1'), the call with sentinel=True
encode_coattention_1(g) ==
    IF g.error # "none" THEN g
    ELSE
    LET r == coattention_shapes(g.shapes.query_encoding, g.shapes.document_encoding)
    IN  [g EXCEPT !.shapes.summary_q_1 = r.summary_q,
                  !.shapes.summary_d_1 = r.summary_d,
                  !.shapes.coattention_d_1 = r.coattention_d]

summary_encoder_returns(g) ==
    [g EXCEPT !.shapes.summary_q_encoding = g.query_encoding,
              !.shapes.summary_d_encoding = g.document_encoding]

\* with tf.variable_scope('summary_encoder')
encode_summary_encoder(g) ==
    summary_encoder_returns(
        query_document_encoder(get_cell(get_cell(g)), summary_encoder_scope,
                               Len(g.cells) + 1, Len(g.cells) + 2,
                               g.shapes.summary_q_1, g.shapes.summary_d_1))

\* with tf.variable_scope('coattention_2'); the summary of the query is dropped
encode_coattention_2(g) ==
    IF g.error # "none" THEN g
    ELSE
    LET r == coattention_shapes(g.shapes.summary_q_encoding, g.shapes.summary_d_encoding)
    IN  [g EXCEPT !.shapes.summary_d_2 = r.summary_d,
                  !.shapes.coattention_d_2 = r.coattention_d]

document_representations(g) ==
    <<g.shapes.document_encoding,     \* E^D_1
      g.shapes.summary_d_encoding,    \* E^D_2
      g.shapes.summary_d_1,           \* S^D_1
      g.shapes.summary_d_2,           \* S^D_2
      g.shapes.coattention_d_1,       \* C^D_1
      g.shapes.coattention_d_2>>      \* C^D_2

document_represented(g) ==
    IF g.error # "none" THEN g
    ELSE [g EXCEPT !.shapes.document_representation = concat(document_representations(g), 2)]

final_encoder_returns(g) ==
    IF g.error # "none" THEN g ELSE [g EXCEPT !.encoding = concat(g.outputs, 2)]

final_encoder_rnn(g) ==
    bidirectional_dynamic_rnn(get_cell(get_cell(g)), final_encoder_scope, "document",
                              Len(g.cells) + 1, Len(g.cells) + 2,
                              g.shapes.document_representation)

\* with tf.variable_scope('final_encoder')
encode_final_encoder(g) == final_encoder_returns(final_encoder_rnn(document_represented(g)))

\* the record of a call that starts on this variable store
Building(variables, reuse, state_size, q, d, enc) ==
    [variables |-> variables, reuse |-> reuse, cells |-> <<>>, passes |-> <<>>,
     error |-> "none", outputs |-> NoShape,
     state_size |-> state_size, query |-> q, document |-> d,
     query_encoding |-> NoShape, document_encoding |-> NoShape,
     shapes |-> NoShapes, encoding |-> enc,
     start_logit |-> NoShape, end_logit |-> NoShape]

\* encode(state_size, query, query_length, document, document_length)
encode(g) ==
    encode_final_encoder(
        encode_coattention_2(
            encode_summary_encoder(
                encode_coattention_1(
                    encode_encoder(g)))))

\* tf.squeeze(shape): every axis of size 1 is removed
squeeze(shape) == SelectSeq(shape, LAMBDA size : size # 1)

start_logit_squeezed(g) ==
    IF g.error # "none" THEN g ELSE [g EXCEPT !.start_logit = squeeze(g.outputs)]

end_logit_squeezed(g) ==
    IF g.error # "none" THEN g ELSE [g EXCEPT !.end_logit = squeeze(g.outputs)]

\* decode(encoding)
decode(g) ==
    end_logit_squeezed(
        dense(
            start_logit_squeezed(dense(g, decode_start_scope, g.encoding, 1)),
            decode_end_scope, g.encoding, 1))

(***************************************************************************)
(* Spec: encode and decode calls on one graph. Each call is made inside    *)
(* the same enclosing variable scope (the root scope), whose reuse flag    *)
(* the caller sets; a call that raises leaves the variables made before    *)
(* the exception in the store and returns nothing.                         *)
(***************************************************************************)
\* some variable of the store lies under one of the scopes
Owns(variables, scopes) == \E v \in variables : <<v.name[1]>> \in scopes

encode_scopes == {encoder_scope, summary_encoder_scope, final_encoder_scope}

decode_scopes == {decode_start_scope, decode_end_scope}

NoArgs == [state_size |-> 0, query |-> NoShape, document |-> NoShape]

Init ==
    /\ graph = [variables |-> {}, last |-> "none", error |-> "none", again |-> FALSE,
                reuse |-> "False", args |-> NoArgs, passes |-> <<>>, shapes |-> NoShapes,
                encoding |-> NoShape, start_logit |-> NoShape, end_logit |-> NoShape]
    /\ pc = "graph"
    /\ query = <<>> /\ query_length = <<>>
    /\ document = <<>> /\ document_length = <<>>
    /\ sentinel = FALSE
    /\ co = NoCall
    /\ first = NoFirst
    /\ mask = NoMask

\* the graph after an encode call that ended with the record g
Encoded(before, g) ==
    [variables |-> g.variables,
     last |-> "encode",
     error |-> g.error,
     again |-> Owns(before.variables, encode_scopes),
     reuse |-> g.reuse,
     args |-> [state_size |-> g.state_size, query |-> g.query, document |-> g.document],
     passes |-> IF g.error = "none" THEN g.passes ELSE <<>>,
     shapes |-> IF g.error = "none" THEN g.shapes ELSE NoShapes,
     encoding |-> IF g.error = "none" THEN g.encoding ELSE NoShape,
     start_logit |-> NoShape,
     end_logit |-> NoShape]

Encode ==
    /\ pc = "graph"
    /\ \E reuse \in ReuseFlags, N \in BatchDims, Q \in 1..MaxQueryLen, D \in 1..MaxLen,
          R \in EmbeddingSizes, H \in StateSizes :
        graph' = Encoded(graph, encode(Building(graph.variables, reuse, H, <<N, Q, R>>, <<N, D, R>>, NoShape)))
    /\ UNCHANGED <<co_vars, pc, mask>>

\* the graph after a decode call that ended with the record g
Decoded(before, g) ==
    [before EXCEPT
        !.variables = g.variables,
        !.last = "decode",
        !.error = g.error,
        !.again = Owns(before.variables, decode_scopes),
        !.reuse = g.reuse,
        !.start_logit = IF g.error = "none" THEN g.start_logit ELSE NoShape,
        !.end_logit = IF g.error = "none" THEN g.end_logit ELSE NoShape]

\* decode on the encoding the last encode call returned
Decode ==
    /\ pc = "graph"
    /\ graph.encoding # NoShape
    /\ \E reuse \in ReuseFlags :
        graph' = Decoded(graph, decode(Building(graph.variables, reuse, graph.args.state_size,
                                                graph.args.query, graph.args.document, graph.encoding)))
    /\ UNCHANGED <<co_vars, pc, mask>>

Next == Encode \/ Decode

Spec == Init /\ [][Next]_vars

(***************************************************************************)
(* Claims on graph construction, checked under Spec.                       *)
(***************************************************************************)
\* the sizes of the arguments of the last encode call
ArgN == graph.args.query[1]
ArgQ == graph.args.query[2]
ArgD == graph.args.document[2]
ArgR == graph.args.query[3]
ArgH == graph.args.state_size

EncodeReturned == graph.last = "encode" /\ graph.error = "none"

DecodeReturned == graph.last = "decode" /\ graph.error = "none"

\* C5: decode on an encoding [N, D, 2H] returns start_logit and end_logit of
\* shape [N, D] each, and of shape [N] only when D = 1; a batch of one with
\* D > 1 gives [1, D].
C5_DecodeShapes ==
    DecodeReturned =>
        LET logit == IF graph.encoding[2] = 1
                     THEN <<graph.encoding[1]>>
                     ELSE <<graph.encoding[1], graph.encoding[2]>>
        IN  graph.start_logit = logit /\ graph.end_logit = logit

\* C7: a call that repeats a call that returned, with the same arguments and in
\* the same enclosing scope, returns too and leaves the variable store as it
\* was: no variable is made a second time and none is missing.
C7_CreatedOnceThenReused ==
    [][ /\ (/\ EncodeReturned \/ DecodeReturned
            /\ graph'.last = "encode"
            /\ graph'.args = graph.args
            /\ graph'.reuse = graph.reuse)
           => (graph'.error = "none" /\ graph'.variables = graph.variables)
        /\ (/\ DecodeReturned
            /\ graph'.last = "decode"
            /\ graph'.reuse = graph.reuse)
           => (graph'.error = "none" /\ graph'.variables = graph.variables) ]_vars

\* two passes use the same forward and the same backward cell parameters
SameCells(a, b) == a.fw = b.fw /\ a.bw = b.bw

\* the cell parameters of the passes of one stage
StageCells(stage) ==
    UNION {{graph.passes[i].fw, graph.passes[i].bw} :
             i \in {j \in 1..Len(graph.passes) : graph.passes[j].stage = stage}}

\* C8: in one encode call, two recurrent passes use the same forward and
\* backward cell parameters if and only if they are the query pass and the
\* document pass of one query_document_encoder call; the encoder stage has one
\* such pair, the summary_encoder stage another, and the cell parameters of
\* encoder, summary_encoder and final_encoder are pairwise disjoint.
C8_SharingWithinStageOnly ==
    EncodeReturned =>
        /\ [i \in 1..Len(graph.passes) |-> <<graph.passes[i].stage, graph.passes[i].input>>]
             = << <<encoder_scope, "query">>, <<encoder_scope, "document">>,
                  <<summary_encoder_scope, "query">>, <<summary_encoder_scope, "document">>,
                  <<final_encoder_scope, "document">> >>
        /\ \A i, j \in 1..Len(graph.passes) :
             i # j => (SameCells(graph.passes[i], graph.passes[j])
                         <=> /\ graph.passes[i].stage = graph.passes[j].stage
                             /\ {graph.passes[i].input, graph.passes[j].input} = {"query", "document"})
        /\ \A s, t \in encode_scopes : s # t => StageCells(s) \cap StageCells(t) = {}

\* an encode call returned that found the variables of an earlier call in the
\* store, with an embedding size equal to 2H, so that the kernels of the
\* encoder and of the summary_encoder have the same shape
C8_Witness ==
    /\ EncodeReturned
    /\ graph.again
    /\ ArgR = 2 * ArgH
    /\ Len(graph.passes) = 5
    /\ SameCells(graph.passes[1], graph.passes[2])
    /\ SameCells(graph.passes[3], graph.passes[4])

(***************************************************************************)
(* SpecMask: calls of maybe_mask_affinity.                                 *)
(***************************************************************************)
\* an affinity tensor [N, L1, L2] whose entries are all different
AffinityPattern(N, L1, L2, sign) ==
    [n \in 1..N |-> [i \in 1..L1 |-> [j \in 1..L2 |-> Int2F(sign * (100 * n + 10 * i + j))]]]

InitMask ==
    /\ \E N \in MaskBatchSizes, L1 \in 1..MaxLen, L2 \in 1..MaxQueryLen, sign \in {-1, 1} :
        \E sequence_length \in [1..N -> 0..L1] \cup {<<>>} :
            mask = [affinity |-> AffinityPattern(N, L1, L2, sign),
                    sequence_length |-> sequence_length,
                    masked |-> <<>>]
    /\ pc = "mask"
    /\ query = <<>> /\ query_length = <<>>
    /\ document = <<>> /\ document_length = <<>>
    /\ sentinel = FALSE
    /\ co = NoCall
    /\ first = NoFirst
    /\ graph = NoGraph

MaskAffinity ==
    /\ pc = "mask"
    /\ mask' = [mask EXCEPT !.masked = maybe_mask_affinity(mask.affinity, mask.sequence_length)]
    /\ pc' = "masked"
    /\ UNCHANGED <<co_vars, graph>>

NextMask == MaskAffinity

SpecMask == InitMask /\ [][NextMask]_vars

\* C1: with a length vector supplied, maybe_mask_affinity returns the mask
\* value (-inf) at [n,i,j] when position i is at or past sequence_length[n]
\* and the input entry affinity[n,i,j] when it is before; the choice depends
\* on n and i only.
C1_MaskedPastLength ==
    (pc = "masked" /\ mask.sequence_length # <<>>) =>
        /\ Len(mask.masked) = Len(mask.affinity)
        /\ \A n \in 1..Len(mask.affinity) :
            /\ Len(mask.masked[n]) = Dim1(mask.affinity)
            /\ \A i \in 1..Dim1(mask.affinity) :
                /\ Len(mask.masked[n][i]) = Dim2(mask.affinity)
                /\ \A j \in 1..Dim2(mask.affinity) :
                    mask.masked[n][i][j] =
                        IF i > mask.sequence_length[n] THEN NegInf ELSE mask.affinity[n][i][j]

\* two batch elements of different lengths, one of them padded
C1_Witness ==
    /\ pc = "masked"
    /\ mask.sequence_length = <<3, 1>>
    /\ Dim2(mask.affinity) = 2
    /\ mask.masked[1] = mask.affinity[1]
    /\ mask.masked[2][1] = mask.affinity[2][1]
    /\ mask.masked[2][2] = <<NegInf, NegInf>>

====
